---- MODULE Spec2Model ----
(***************************************************************************)
(* Model of mayautils.SceneFile: the naming convention                     *)
(* descriptor + "_v" + zero-padded version + "." + ext, its parsing in     *)
(* the constructor, save() with its single retry, and the directory scan   *)
(* of increment_and_save().                                                *)
(*                                                                         *)
(* Strings are sequences of one-character strings, so that split, int and  *)
(* format are computed character by character as Python computes them.     *)
(* A Path is a record [parent |-> sequence of directory names,             *)
(* name |-> file name]; a directory is the sequence of its components,     *)
(* <<>> being the current directory (Path("")).                            *)
(***************************************************************************)
EXTENDS Integers, Sequences, FiniteSets

(***************************************************************************)
(* Bounds of the model.                                                    *)
(***************************************************************************)
\* largest number of files in a directory that increment_and_save scans
MaxFiles == 2
\* largest version passed to the constructor, or held when a scan starts
MaxVersion == 2
\* longest descriptor of the generated round-trip file names
MaxDescLen == 1
\* longest extension of the generated round-trip file names
MaxExtLen == 2

(***************************************************************************)
(* Python string primitives.                                               *)
(***************************************************************************)
\* A character is a one-character string; a character that such a string
\* cannot hold is written by its code point: "U+0663" is ARABIC-INDIC DIGIT
\* THREE, "U+00A0" the no-break space.

\* the digits str.format writes
DigitChars == <<"0", "1", "2", "3", "4", "5", "6", "7", "8", "9">>

\* the digits int() reads: every decimal digit of Unicode, as the blocks of
\* ten, zero to nine, in which they come
DecimalBlocks ==
    <<<<"0", "1", "2", "3", "4", "5", "6", "7", "8", "9">>,
      <<"U+0660", "U+0661", "U+0662", "U+0663", "U+0664", "U+0665", "U+0666", "U+0667", "U+0668", "U+0669">>,
      <<"U+06F0", "U+06F1", "U+06F2", "U+06F3", "U+06F4", "U+06F5", "U+06F6", "U+06F7", "U+06F8", "U+06F9">>,
      <<"U+07C0", "U+07C1", "U+07C2", "U+07C3", "U+07C4", "U+07C5", "U+07C6", "U+07C7", "U+07C8", "U+07C9">>,
      <<"U+0966", "U+0967", "U+0968", "U+0969", "U+096A", "U+096B", "U+096C", "U+096D", "U+096E", "U+096F">>,
      <<"U+09E6", "U+09E7", "U+09E8", "U+09E9", "U+09EA", "U+09EB", "U+09EC", "U+09ED", "U+09EE", "U+09EF">>,
      <<"U+0A66", "U+0A67", "U+0A68", "U+0A69", "U+0A6A", "U+0A6B", "U+0A6C", "U+0A6D", "U+0A6E", "U+0A6F">>,
      <<"U+0AE6", "U+0AE7", "U+0AE8", "U+0AE9", "U+0AEA", "U+0AEB", "U+0AEC", "U+0AED", "U+0AEE", "U+0AEF">>,
      <<"U+0B66", "U+0B67", "U+0B68", "U+0B69", "U+0B6A", "U+0B6B", "U+0B6C", "U+0B6D", "U+0B6E", "U+0B6F">>,
      <<"U+0BE6", "U+0BE7", "U+0BE8", "U+0BE9", "U+0BEA", "U+0BEB", "U+0BEC", "U+0BED", "U+0BEE", "U+0BEF">>,
      <<"U+0C66", "U+0C67", "U+0C68", "U+0C69", "U+0C6A", "U+0C6B", "U+0C6C", "U+0C6D", "U+0C6E", "U+0C6F">>,
      <<"U+0CE6", "U+0CE7", "U+0CE8", "U+0CE9", "U+0CEA", "U+0CEB", "U+0CEC", "U+0CED", "U+0CEE", "U+0CEF">>,
      <<"U+0D66", "U+0D67", "U+0D68", "U+0D69", "U+0D6A", "U+0D6B", "U+0D6C", "U+0D6D", "U+0D6E", "U+0D6F">>,
      <<"U+0DE6", "U+0DE7", "U+0DE8", "U+0DE9", "U+0DEA", "U+0DEB", "U+0DEC", "U+0DED", "U+0DEE", "U+0DEF">>,
      <<"U+0E50", "U+0E51", "U+0E52", "U+0E53", "U+0E54", "U+0E55", "U+0E56", "U+0E57", "U+0E58", "U+0E59">>,
      <<"U+0ED0", "U+0ED1", "U+0ED2", "U+0ED3", "U+0ED4", "U+0ED5", "U+0ED6", "U+0ED7", "U+0ED8", "U+0ED9">>,
      <<"U+0F20", "U+0F21", "U+0F22", "U+0F23", "U+0F24", "U+0F25", "U+0F26", "U+0F27", "U+0F28", "U+0F29">>,
      <<"U+1040", "U+1041", "U+1042", "U+1043", "U+1044", "U+1045", "U+1046", "U+1047", "U+1048", "U+1049">>,
      <<"U+1090", "U+1091", "U+1092", "U+1093", "U+1094", "U+1095", "U+1096", "U+1097", "U+1098", "U+1099">>,
      <<"U+17E0", "U+17E1", "U+17E2", "U+17E3", "U+17E4", "U+17E5", "U+17E6", "U+17E7", "U+17E8", "U+17E9">>,
      <<"U+1810", "U+1811", "U+1812", "U+1813", "U+1814", "U+1815", "U+1816", "U+1817", "U+1818", "U+1819">>,
      <<"U+1946", "U+1947", "U+1948", "U+1949", "U+194A", "U+194B", "U+194C", "U+194D", "U+194E", "U+194F">>,
      <<"U+19D0", "U+19D1", "U+19D2", "U+19D3", "U+19D4", "U+19D5", "U+19D6", "U+19D7", "U+19D8", "U+19D9">>,
      <<"U+1A80", "U+1A81", "U+1A82", "U+1A83", "U+1A84", "U+1A85", "U+1A86", "U+1A87", "U+1A88", "U+1A89">>,
      <<"U+1A90", "U+1A91", "U+1A92", "U+1A93", "U+1A94", "U+1A95", "U+1A96", "U+1A97", "U+1A98", "U+1A99">>,
      <<"U+1B50", "U+1B51", "U+1B52", "U+1B53", "U+1B54", "U+1B55", "U+1B56", "U+1B57", "U+1B58", "U+1B59">>,
      <<"U+1BB0", "U+1BB1", "U+1BB2", "U+1BB3", "U+1BB4", "U+1BB5", "U+1BB6", "U+1BB7", "U+1BB8", "U+1BB9">>,
      <<"U+1C40", "U+1C41", "U+1C42", "U+1C43", "U+1C44", "U+1C45", "U+1C46", "U+1C47", "U+1C48", "U+1C49">>,
      <<"U+1C50", "U+1C51", "U+1C52", "U+1C53", "U+1C54", "U+1C55", "U+1C56", "U+1C57", "U+1C58", "U+1C59">>,
      <<"U+A620", "U+A621", "U+A622", "U+A623", "U+A624", "U+A625", "U+A626", "U+A627", "U+A628", "U+A629">>,
      <<"U+A8D0", "U+A8D1", "U+A8D2", "U+A8D3", "U+A8D4", "U+A8D5", "U+A8D6", "U+A8D7", "U+A8D8", "U+A8D9">>,
      <<"U+A900", "U+A901", "U+A902", "U+A903", "U+A904", "U+A905", "U+A906", "U+A907", "U+A908", "U+A909">>,
      <<"U+A9D0", "U+A9D1", "U+A9D2", "U+A9D3", "U+A9D4", "U+A9D5", "U+A9D6", "U+A9D7", "U+A9D8", "U+A9D9">>,
      <<"U+A9F0", "U+A9F1", "U+A9F2", "U+A9F3", "U+A9F4", "U+A9F5", "U+A9F6", "U+A9F7", "U+A9F8", "U+A9F9">>,
      <<"U+AA50", "U+AA51", "U+AA52", "U+AA53", "U+AA54", "U+AA55", "U+AA56", "U+AA57", "U+AA58", "U+AA59">>,
      <<"U+ABF0", "U+ABF1", "U+ABF2", "U+ABF3", "U+ABF4", "U+ABF5", "U+ABF6", "U+ABF7", "U+ABF8", "U+ABF9">>,
      <<"U+FF10", "U+FF11", "U+FF12", "U+FF13", "U+FF14", "U+FF15", "U+FF16", "U+FF17", "U+FF18", "U+FF19">>,
      <<"U+104A0", "U+104A1", "U+104A2", "U+104A3", "U+104A4", "U+104A5", "U+104A6", "U+104A7", "U+104A8", "U+104A9">>,
      <<"U+10D30", "U+10D31", "U+10D32", "U+10D33", "U+10D34", "U+10D35", "U+10D36", "U+10D37", "U+10D38", "U+10D39">>,
      <<"U+11066", "U+11067", "U+11068", "U+11069", "U+1106A", "U+1106B", "U+1106C", "U+1106D", "U+1106E", "U+1106F">>,
      <<"U+110F0", "U+110F1", "U+110F2", "U+110F3", "U+110F4", "U+110F5", "U+110F6", "U+110F7", "U+110F8", "U+110F9">>,
      <<"U+11136", "U+11137", "U+11138", "U+11139", "U+1113A", "U+1113B", "U+1113C", "U+1113D", "U+1113E", "U+1113F">>,
      <<"U+111D0", "U+111D1", "U+111D2", "U+111D3", "U+111D4", "U+111D5", "U+111D6", "U+111D7", "U+111D8", "U+111D9">>,
      <<"U+112F0", "U+112F1", "U+112F2", "U+112F3", "U+112F4", "U+112F5", "U+112F6", "U+112F7", "U+112F8", "U+112F9">>,
      <<"U+11450", "U+11451", "U+11452", "U+11453", "U+11454", "U+11455", "U+11456", "U+11457", "U+11458", "U+11459">>,
      <<"U+114D0", "U+114D1", "U+114D2", "U+114D3", "U+114D4", "U+114D5", "U+114D6", "U+114D7", "U+114D8", "U+114D9">>,
      <<"U+11650", "U+11651", "U+11652", "U+11653", "U+11654", "U+11655", "U+11656", "U+11657", "U+11658", "U+11659">>,
      <<"U+116C0", "U+116C1", "U+116C2", "U+116C3", "U+116C4", "U+116C5", "U+116C6", "U+116C7", "U+116C8", "U+116C9">>,
      <<"U+11730", "U+11731", "U+11732", "U+11733", "U+11734", "U+11735", "U+11736", "U+11737", "U+11738", "U+11739">>,
      <<"U+118E0", "U+118E1", "U+118E2", "U+118E3", "U+118E4", "U+118E5", "U+118E6", "U+118E7", "U+118E8", "U+118E9">>,
      <<"U+11950", "U+11951", "U+11952", "U+11953", "U+11954", "U+11955", "U+11956", "U+11957", "U+11958", "U+11959">>,
      <<"U+11C50", "U+11C51", "U+11C52", "U+11C53", "U+11C54", "U+11C55", "U+11C56", "U+11C57", "U+11C58", "U+11C59">>,
      <<"U+11D50", "U+11D51", "U+11D52", "U+11D53", "U+11D54", "U+11D55", "U+11D56", "U+11D57", "U+11D58", "U+11D59">>,
      <<"U+11DA0", "U+11DA1", "U+11DA2", "U+11DA3", "U+11DA4", "U+11DA5", "U+11DA6", "U+11DA7", "U+11DA8", "U+11DA9">>,
      <<"U+16A60", "U+16A61", "U+16A62", "U+16A63", "U+16A64", "U+16A65", "U+16A66", "U+16A67", "U+16A68", "U+16A69">>,
      <<"U+16AC0", "U+16AC1", "U+16AC2", "U+16AC3", "U+16AC4", "U+16AC5", "U+16AC6", "U+16AC7", "U+16AC8", "U+16AC9">>,
      <<"U+16B50", "U+16B51", "U+16B52", "U+16B53", "U+16B54", "U+16B55", "U+16B56", "U+16B57", "U+16B58", "U+16B59">>,
      <<"U+1D7CE", "U+1D7CF", "U+1D7D0", "U+1D7D1", "U+1D7D2", "U+1D7D3", "U+1D7D4", "U+1D7D5", "U+1D7D6", "U+1D7D7">>,
      <<"U+1D7D8", "U+1D7D9", "U+1D7DA", "U+1D7DB", "U+1D7DC", "U+1D7DD", "U+1D7DE", "U+1D7DF", "U+1D7E0", "U+1D7E1">>,
      <<"U+1D7E2", "U+1D7E3", "U+1D7E4", "U+1D7E5", "U+1D7E6", "U+1D7E7", "U+1D7E8", "U+1D7E9", "U+1D7EA", "U+1D7EB">>,
      <<"U+1D7EC", "U+1D7ED", "U+1D7EE", "U+1D7EF", "U+1D7F0", "U+1D7F1", "U+1D7F2", "U+1D7F3", "U+1D7F4", "U+1D7F5">>,
      <<"U+1D7F6", "U+1D7F7", "U+1D7F8", "U+1D7F9", "U+1D7FA", "U+1D7FB", "U+1D7FC", "U+1D7FD", "U+1D7FE", "U+1D7FF">>,
      <<"U+1E140", "U+1E141", "U+1E142", "U+1E143", "U+1E144", "U+1E145", "U+1E146", "U+1E147", "U+1E148", "U+1E149">>,
      <<"U+1E2F0", "U+1E2F1", "U+1E2F2", "U+1E2F3", "U+1E2F4", "U+1E2F5", "U+1E2F6", "U+1E2F7", "U+1E2F8", "U+1E2F9">>,
      <<"U+1E950", "U+1E951", "U+1E952", "U+1E953", "U+1E954", "U+1E955", "U+1E956", "U+1E957", "U+1E958", "U+1E959">>,
      <<"U+1FBF0", "U+1FBF1", "U+1FBF2", "U+1FBF3", "U+1FBF4", "U+1FBF5", "U+1FBF6", "U+1FBF7", "U+1FBF8", "U+1FBF9">>>>

\* the characters int() reads as a digit
DecimalChars == {DecimalBlocks[b][k] : b \in 1..Len(DecimalBlocks), k \in 1..10}

\* the value of each of them: its place in its block
DecimalValue ==
    [c \in DecimalChars |->
        CHOOSE d \in 0..9 : \E b \in 1..Len(DecimalBlocks) : DecimalBlocks[b][d + 1] = c]

IsDigit(c) == c \in DecimalChars

DigitVal(c) == DecimalValue[c]

\* the white space int() drops around its argument
WhiteSpace ==
    {" ", "\t", "\n", "\r", "\f", "U+000B", "U+0085", "U+00A0", "U+1680",
     "U+2000", "U+2001", "U+2002", "U+2003", "U+2004", "U+2005", "U+2006",
     "U+2007", "U+2008", "U+2009", "U+200A", "U+2028", "U+2029", "U+202F",
     "U+205F", "U+3000"}

\* str.find(sep, k): the first index >= k at which sep occurs in s, 0 if none
RECURSIVE find(_, _, _)
find(s, sep, k) ==
    IF k + Len(sep) - 1 > Len(s) THEN 0
    ELSE IF SubSeq(s, k, k + Len(sep) - 1) = sep THEN k
    ELSE find(s, sep, k + 1)

\* str.split(sep): every non-overlapping occurrence of sep, left to right
RECURSIVE split(_, _)
split(s, sep) ==
    LET k == find(s, sep, 1)
    IN  IF k = 0 THEN <<s>>
        ELSE <<SubSeq(s, 1, k - 1)>> \o split(SubSeq(s, k + Len(sep), Len(s)), sep)

\* str.strip() of white space, as int() applies it to its argument
RECURSIVE lstrip(_)
lstrip(s) == IF s # <<>> /\ Head(s) \in WhiteSpace THEN lstrip(Tail(s)) ELSE s

RECURSIVE rstrip(_)
rstrip(s) ==
    IF s # <<>> /\ s[Len(s)] \in WhiteSpace THEN rstrip(SubSeq(s, 1, Len(s) - 1)) ELSE s

strip(s) == rstrip(lstrip(s))

\* the text of an int() argument after its optional sign
Unsigned(s) ==
    LET t == strip(s)
    IN  IF t # <<>> /\ Head(t) \in {"+", "-"} THEN Tail(t) ELSE t

\* int(s) returns (TRUE) or raises ValueError (FALSE): white space, an
\* optional sign, then decimal digits with single underscores allowed between
\* digits, then white space
IsIntLiteral(s) ==
    LET t == Unsigned(s)
    IN  /\ t # <<>>
        /\ \A k \in 1..Len(t) :
              \/ IsDigit(t[k])
              \/ /\ t[k] = "_"
                 /\ 1 < k
                 /\ k < Len(t)
                 /\ IsDigit(t[k - 1])
                 /\ IsDigit(t[k + 1])

RECURSIVE DigitsValue(_, _)
DigitsValue(t, acc) ==
    IF t = <<>> THEN acc
    ELSE IF Head(t) = "_" THEN DigitsValue(Tail(t), acc)
    ELSE DigitsValue(Tail(t), 10 * acc + DigitVal(Head(t)))

\* int(s), for s with IsIntLiteral(s)
int(s) ==
    LET t == strip(s)
        n == DigitsValue(Unsigned(s), 0)
    IN  IF t # <<>> /\ Head(t) = "-" THEN 0 - n ELSE n

\* str(n) for n >= 0
RECURSIVE DecimalDigits(_)
DecimalDigits(n) ==
    IF n < 10 THEN <<DigitChars[n + 1]>>
    ELSE DecimalDigits(n \div 10) \o <<DigitChars[(n % 10) + 1]>>

RECURSIVE ZeroFill(_, _)
ZeroFill(s, width) == IF Len(s) >= width THEN s ELSE ZeroFill(<<"0">> \o s, width)

\* the field width of the name pattern's {version:03d}
PadWidth == 3

\* "{:03d}".format(n): zero-padded to width 3, the sign counted in the width
format03d(n) ==
    IF n < 0 THEN <<"-">> \o ZeroFill(DecimalDigits(0 - n), PadWidth - 1)
    ELSE ZeroFill(DecimalDigits(n), PadWidth)

SEP == <<"_", "v">>

DOT == <<".">>

\* SceneFile.basename(): "{descriptor}_v{version:03d}.{ext}"
basename(d, v, e) == d \o SEP \o format03d(v) \o DOT \o e

\* SceneFile.path(): Path(self.dir) / self.basename()
path(dr, d, v, e) == [parent |-> dr, name |-> basename(d, v, e)]

(***************************************************************************)
(* Data of the model: directories, descriptors, file names.                *)
(***************************************************************************)
ship == <<"s", "h", "i", "p">>

car == <<"c", "a", "r">>

ma == <<"m", "a">>

ProjDir == <<"proj">>

ScenesDir == <<"proj", "scenes">>

\* Path(""): the current directory, which always exists
CurDir == <<>>

\* the directory obj.dir is set to
SetDirs == {ProjDir}


\* sceneName() of a scene that was never saved: Path("")
Untitled == [parent |-> CurDir, name |-> <<>>]

\* the directory dr and every ancestor of it that has a name
Ancestors(dr) == {SubSeq(dr, 1, k) : k \in 1..Len(dr)}

\* the characters of a directory's name
ComponentName ==
    [c \in {"proj", "scenes"} |->
        IF c = "proj" THEN <<"p", "r", "o", "j">>
        ELSE <<"s", "c", "e", "n", "e", "s">>]

\* the file that has the path of the directory p
AsFile(p) ==
    [parent |-> SubSeq(p, 1, Len(p) - 1), name |-> ComponentName[p[Len(p)]]]

\* a regular file has the path p
IsFile(p, files) == p # <<>> /\ AsFile(p) \in files

\* os.path.exists(p), False on the empty path
Exists(p, dirs, files) == p # <<>> /\ (p \in dirs \/ IsFile(p, files))

\* os.mkdir(p): the empty path raises ENOENT, a path that exists EEXIST, a
\* parent that is a file ENOTDIR, a missing parent ENOENT; otherwise the
\* directory is created unless the file system refuses (denied: EACCES)
os_mkdir(p, dirs, files, denied) ==
    LET head == SubSeq(p, 1, Len(p) - 1)
    IN  IF p = <<>> THEN [err |-> "FileNotFoundError", dirs |-> dirs]
        ELSE IF Exists(p, dirs, files) THEN [err |-> "FileExistsError", dirs |-> dirs]
        ELSE IF IsFile(head, files) THEN [err |-> "OSError", dirs |-> dirs]
        ELSE IF head \notin dirs THEN [err |-> "FileNotFoundError", dirs |-> dirs]
        ELSE IF denied THEN [err |-> "OSError", dirs |-> dirs]
        ELSE [err |-> "none", dirs |-> dirs \cup {p}]

\* os.makedirs(p): the missing ancestors are created first, outermost first,
\* then p; an exception leaves what was created before it. stop is the depth
\* of the mkdir the file system refuses, 0 when it refuses none.
RECURSIVE os_makedirs(_, _, _, _)
os_makedirs(p, dirs, files, stop) ==
    LET head == SubSeq(p, 1, Len(p) - 1)
        above == IF p # <<>> /\ head # <<>> /\ ~Exists(head, dirs, files)
                 THEN os_makedirs(head, dirs, files, stop)
                 ELSE [err |-> "none", dirs |-> dirs]
    IN  IF above.err \notin {"none", "FileExistsError"} THEN above
        ELSE os_mkdir(p, above.dirs, files, Len(p) = stop)

\* Path(dr).makedirs_p(): os.makedirs with its EEXIST swallowed, that of a
\* regular file in the place of dr included
makedirs_p(dr, dirs, files, stop) ==
    LET made == os_makedirs(dr, dirs, files, stop)
    IN  IF made.err = "FileExistsError" THEN [err |-> "none", dirs |-> made.dirs]
        ELSE made

\* file names a directory may hold before the program runs: versions of the
\* ship scene, scenes of another descriptor, names outside the convention,
\* a version written with white space and a digit outside ASCII
SceneNames ==
    {basename(ship, v, ma) : v \in 1..MaxVersion}
        \cup {basename(car, 9, ma),
              ship,
              <<"n", "o", "t", "e", "s", ".", "t", "x", "t">>,
              ship \o SEP \o <<"\t", "U+0661">> \o DOT \o ma,
              ship \o SEP \o <<"a", "b", "c">> \o DOT \o ma}

\* arguments passed to SceneFile(...)
ArgDirs == {CurDir, ScenesDir}

ArgDescriptors == {ship}

ArgExts == {ma}

(***************************************************************************)
(* State.                                                                  *)
(***************************************************************************)
VARIABLES
    modified,        \* host: pmc.system.isModified()
    sceneName,       \* host: pmc.system.sceneName(), a Path
    fsDirs,          \* file system: the directories that exist
    fsFiles,         \* file system: the files that exist, as Paths
    obj,             \* the caller holds a SceneFile
    dir,             \* self._dir
    descriptor,      \* self.descriptor
    version,         \* self.version
    ext,             \* self.ext
    scenes,          \* increment_and_save: the local list scenes
    i,               \* increment_and_save: position of the scan loop in scenes
    largest_number,  \* increment_and_save: the local largest_number
    version0,        \* self.version when increment_and_save was called
    attempts,        \* outcomes of the saveAs calls of the current save()
    makedirs,        \* number of makedirs_p calls of the current save()
    op,              \* the operation running, or the last one that ran
    err,             \* the exception that left the last operation, or "none"
    pc               \* position of the program

vars == <<modified, sceneName, fsDirs, fsFiles, obj, dir, descriptor, version, ext,
          scenes, i, largest_number, version0, attempts, makedirs, op, err, pc>>

host == <<modified, sceneName>>

fs == <<fsDirs, fsFiles>>

self == <<obj, dir, descriptor, version, ext>>

locals == <<scenes, i, largest_number, version0>>

\* the locals of increment_and_save once the call is over
NoLocals ==
    /\ scenes' = <<>>
    /\ i' = 0
    /\ largest_number' = 0
    /\ version0' = 0

(***************************************************************************)
(* SceneFile.__init__                                                      *)
(***************************************************************************)
\* a parse that splits the name on "_" where the convention has "_v"
ParseName_SplitUnderscore(fullname) ==
    LET nameandversion == split(fullname, <<"_">>)
    IN  IF Len(nameandversion) # 2 THEN [err |-> "RuntimeError"]
        ELSE
            LET versionandext == split(nameandversion[2], DOT)
            IN  IF ~IsIntLiteral(versionandext[1]) THEN [err |-> "ValueError"]
                ELSE IF Len(versionandext) < 2 THEN [err |-> "IndexError"]
                ELSE [err |-> "none",
                      descriptor |-> nameandversion[1],
                      version |-> int(versionandext[1]),
                      ext |-> versionandext[2]]

\* lines 41-48: the fields read from the name of the open scene, or the
\* exception that leaves the constructor
ParseName(fullname) ==
    LET nameandversion == split(fullname, SEP)
    IN  IF Len(nameandversion) # 2 THEN [err |-> "RuntimeError"]
        ELSE
            LET versionandext == split(nameandversion[2], DOT)
            IN  IF ~IsIntLiteral(versionandext[1]) THEN [err |-> "ValueError"]
                ELSE IF Len(versionandext) < 2 THEN [err |-> "IndexError"]
                ELSE [err |-> "none",
                      descriptor |-> nameandversion[1],
                      version |-> int(versionandext[1]),
                      ext |-> versionandext[2]]

\* SceneFile(dir, descriptor, version, ext) under the host's state
SceneFile(isModified, open_path, argDir, argDesc, argVer, argExt) ==
    IF isModified
    THEN [err |-> "none", dir |-> argDir, descriptor |-> argDesc,
          version |-> argVer, ext |-> argExt]
    ELSE LET r == ParseName(open_path.name)
         IN  IF r.err # "none" THEN r
             ELSE [err |-> "none", dir |-> open_path.parent,
                   descriptor |-> r.descriptor, version |-> r.version,
                   ext |-> r.ext]

\* obj = SceneFile(...): on an exception no object is returned, and the
\* caller keeps what it had
Construct ==
    /\ pc = "idle"
    /\ \E argDir \in ArgDirs, argDesc \in ArgDescriptors,
          argVer \in 1..MaxVersion, argExt \in ArgExts :
          LET r == SceneFile(modified, sceneName, argDir, argDesc, argVer, argExt)
          IN  /\ err' = r.err
              /\ IF r.err = "none"
                 THEN /\ obj' = TRUE
                      /\ dir' = r.dir
                      /\ descriptor' = r.descriptor
                      /\ version' = r.version
                      /\ ext' = r.ext
                 ELSE UNCHANGED self
    /\ pc' = "returned"
    /\ op' = "construct"
    /\ UNCHANGED <<host, fs, locals, attempts, makedirs>>

(***************************************************************************)
(* SceneFile.save                                                          *)
(***************************************************************************)
\* the host's saveAs(p) returned: the file exists and is the open scene
Saved(p) ==
    /\ fsFiles' = fsFiles \cup {p}
    /\ sceneName' = p
    /\ modified' = FALSE

\* obj.save() is called
Save ==
    /\ pc = "idle"
    /\ obj
    /\ op' = "save"
    /\ err' = "none"
    /\ attempts' = <<>>
    /\ makedirs' = 0
    /\ pc' = "try"
    /\ UNCHANGED <<host, fs, self, locals>>

\* line 85: the first saveAs. The host raises RuntimeError when the
\* directory is missing, and may raise it for any other reason.
SaveAs ==
    /\ pc = "try"
    /\ \E ok \in BOOLEAN :
          /\ ok => dir \in fsDirs
          /\ attempts' = Append(attempts, ok)
          /\ IF ok
             THEN /\ Saved(path(dir, descriptor, version, ext))
                  /\ pc' = "returned"
             ELSE /\ pc' = "except"
                  /\ UNCHANGED <<host, fsFiles>>
    /\ UNCHANGED <<fsDirs, self, locals, makedirs, op, err>>

\* lines 86-89: the except block: makedirs_p, whose exception leaves save(),
\* then the second saveAs, whose RuntimeError leaves save()
Retry ==
    /\ pc = "except"
    /\ makedirs' = makedirs + 1
    /\ \E stop \in 0..Len(dir), ok \in BOOLEAN :
          LET made == makedirs_p(dir, fsDirs, fsFiles, stop)
          IN  /\ fsDirs' = made.dirs
              /\ IF made.err # "none"
                 THEN /\ err' = made.err
                      /\ UNCHANGED <<host, fsFiles, attempts>>
                 ELSE /\ ok => dir \in made.dirs
                      /\ attempts' = Append(attempts, ok)
                      /\ IF ok
                         THEN /\ Saved(path(dir, descriptor, version, ext))
                              /\ err' = err
                         ELSE /\ err' = "RuntimeError"
                              /\ UNCHANGED <<host, fsFiles>>
    /\ pc' = "returned"
    /\ UNCHANGED <<self, locals, op>>

(***************************************************************************)
(* SceneFile.dir                                                           *)
(***************************************************************************)
\* lines 55-57: obj.dir = val
SetDir ==
    /\ pc = "idle"
    /\ obj
    /\ \E val \in SetDirs : dir' = val
    /\ UNCHANGED <<host, fs, obj, descriptor, version, ext, locals,
                   attempts, makedirs, op, err, pc>>

(***************************************************************************)
(* SceneFile.increment_and_save                                            *)
(***************************************************************************)
\* the orders in which the host may list the names of a directory
Listings(names) ==
    {l \in [1..Cardinality(names) -> names] :
        \A j, k \in 1..Cardinality(names) : j # k => l[j] # l[k]}

\* the names getFileList(folder=dr) returns, none when dr does not exist
FileNames(dr) == {f.name : f \in {g \in fsFiles : g.parent = dr}}

\* a loop body that looks at every scene, whatever its descriptor
ScanOne_AnyDescriptor(desc, st, scene) ==
    LET parts == split(scene, SEP)
    IN  IF Len(parts) < 2 THEN [st EXCEPT !.err = "IndexError"]
        ELSE
            LET name == split(parts[2], DOT)[1]
            IN  IF ~IsIntLiteral(name) THEN [st EXCEPT !.err = "ValueError"]
                ELSE
                    LET value == int(name)
                        ln == IF value > st.version THEN value
                              ELSE st.largest_number
                    IN  [version |-> IF value = st.version THEN ln + 1
                                     ELSE st.version,
                         largest_number |-> ln,
                         err |-> "none"]

\* lines 116-125: one pass of the loop body over scene, on
\* st = [version |-> self.version, largest_number, err]
ScanOne(desc, st, scene) ==
    LET parts == split(scene, SEP)
    IN  IF parts[1] # desc THEN st
        ELSE IF Len(parts) < 2 THEN [st EXCEPT !.err = "IndexError"]
        ELSE
            LET name == split(parts[2], DOT)[1]
            IN  IF ~IsIntLiteral(name) THEN [st EXCEPT !.err = "ValueError"]
                ELSE
                    LET value == int(name)
                        ln == IF value > st.version THEN value
                              ELSE st.largest_number
                    IN  [version |-> IF value = st.version THEN ln + 1
                                     ELSE st.version,
                         largest_number |-> ln,
                         err |-> "none"]

\* lines 114-125: the whole loop over a listing, left at the first exception
RECURSIVE RunScan(_, _, _)
RunScan(desc, st, listing) ==
    IF listing = <<>> \/ st.err # "none" THEN st
    ELSE RunScan(desc, ScanOne(desc, st, Head(listing)), Tail(listing))

\* lines 107-114: obj.increment_and_save() is called: the directory is
\* listed, in the order the host chooses, and largest_number is seeded
IncrementAndSave ==
    /\ pc = "idle"
    /\ obj
    /\ version <= MaxVersion
    /\ Cardinality(FileNames(dir)) <= MaxFiles
    /\ \E files \in Listings(FileNames(dir)) :
          /\ scenes' = files
          /\ pc' = IF files = <<>> THEN "try" ELSE "scan"
    /\ i' = 1
    /\ largest_number' = version
    /\ version0' = version
    /\ op' = "increment"
    /\ err' = "none"
    /\ attempts' = <<>>
    /\ makedirs' = 0
    /\ UNCHANGED <<host, fs, self>>

\* lines 115-126: one iteration of the loop; an exception leaves the call,
\* the last iteration goes on to self.save()
ScanStep ==
    /\ pc = "scan"
    /\ LET st == ScanOne(descriptor,
                         [version |-> version,
                          largest_number |-> largest_number,
                          err |-> "none"],
                         scenes[i])
       IN  /\ version' = st.version
           /\ largest_number' = st.largest_number
           /\ err' = st.err
           /\ IF st.err # "none"
              THEN /\ pc' = "returned"
                   /\ i' = i
              ELSE /\ pc' = IF i = Len(scenes) THEN "try" ELSE "scan"
                   /\ i' = i + 1
    /\ UNCHANGED <<host, fs, obj, dir, descriptor, ext, scenes, version0,
                   attempts, makedirs, op>>

\* the call is over, by a return or by an exception: its frame is gone and
\* the caller goes on
Return ==
    /\ pc = "returned"
    /\ pc' = "idle"
    /\ op' = "none"
    /\ err' = "none"
    /\ attempts' = <<>>
    /\ makedirs' = 0
    /\ NoLocals
    /\ UNCHANGED <<host, fs, self>>

(***************************************************************************)
(* Specifications.                                                         *)
(***************************************************************************)
Next ==
    \/ Construct
    \/ SetDir
    \/ Save
    \/ SaveAs
    \/ Retry
    \/ IncrementAndSave
    \/ ScanStep
    \/ Return

\* before any SceneFile exists
NoObject ==
    /\ obj = FALSE
    /\ dir = CurDir
    /\ descriptor = <<>>
    /\ version = 0
    /\ ext = <<>>
    /\ scenes = <<>>
    /\ i = 0
    /\ largest_number = 0
    /\ version0 = 0
    /\ attempts = <<>>
    /\ makedirs = 0
    /\ op = "none"
    /\ err = "none"
    /\ pc = "idle"

\* the directory trees the program may find
DirTrees == {{CurDir}, {CurDir, ProjDir}, {CurDir, ProjDir, ScenesDir}}

\* The scenes directory, when it exists, holds up to MaxFiles of SceneNames;
\* where there is no directory proj, a regular file may have its path; the
\* host's scene is untitled or one of these files, modified or not.
Init ==
    /\ fsDirs \in DirTrees
    /\ \E names \in SUBSET SceneNames, inTheWay \in BOOLEAN :
          /\ Cardinality(names) <= MaxFiles
          /\ names # {} => ScenesDir \in fsDirs
          /\ inTheWay => ProjDir \notin fsDirs
          /\ fsFiles = {[parent |-> ScenesDir, name |-> n] : n \in names}
                          \cup (IF inTheWay THEN {AsFile(ProjDir)} ELSE {})
    /\ sceneName \in {Untitled} \cup fsFiles
    /\ modified \in BOOLEAN
    /\ NoObject

Spec == Init /\ [][Next]_vars

\* the characters of the generated descriptors and extensions
PartChars == {"a", "_", "v", "."}

\* every string over PartChars of at most n characters
Parts(n) == UNION {[1..k -> PartChars] : k \in 0..n}

\* versions of the generated names: of one, two and three digits
RoundTripVersions == {9, 10, 100, 999}

\* names of open scenes that are outside the convention, one of them with a
\* version that int() reads through white space and a digit outside ASCII
OddNames ==
    {<<>>,
     <<"s", "c", "e", "n", "e">> \o DOT \o ma,
     ship \o SEP \o <<"0", "0", "1">>,
     ship \o SEP \o <<"a", "b", "c">> \o DOT \o ma,
     ship \o SEP \o <<"a", "b", "c">>,
     ship \o SEP \o <<"0", "0", "1">> \o SEP \o <<"2">> \o DOT \o ma,
     ship \o SEP \o <<"\t", "U+0669", " ">> \o DOT \o ma,
     ship \o SEP \o <<"0", "0", "1">> \o DOT \o <<"t", "a", "r">> \o DOT \o <<"g", "z">>}

\* names the host's open scene may have
OpenNames ==
    {basename(d, v, e) : d \in Parts(MaxDescLen), v \in RoundTripVersions,
                          e \in Parts(MaxExtLen)}
        \cup OddNames

\* The host has a scene open under one of OpenNames in the scenes directory,
\* where it is the only file.
InitOpen ==
    /\ fsDirs = {CurDir, ProjDir, ScenesDir}
    /\ sceneName \in {[parent |-> ScenesDir, name |-> n] : n \in OpenNames}
    /\ fsFiles = {sceneName}
    /\ modified = FALSE
    /\ NoObject

SpecOpen == InitOpen /\ [][Next]_vars

(***************************************************************************)
(* Vocabulary of the properties.                                           *)
(***************************************************************************)
\* the descriptor the scan extracts from a listed name equals self.descriptor
SameDescriptor(scene) == split(scene, SEP)[1] = descriptor

\* the listed name contains "_v"
HasSep(scene) == find(scene, SEP, 1) # 0

\* the listed name has version text that int() accepts
HasVersion(scene) ==
    /\ HasSep(scene)
    /\ IsIntLiteral(split(split(scene, SEP)[2], DOT)[1])

VersionOf(scene) == int(split(split(scene, SEP)[2], DOT)[1])

\* positions in scenes of the files of self.descriptor
Siblings == {k \in 1..Len(scenes) : SameDescriptor(scenes[k])}

\* versions of the files of self.descriptor
SiblingVersions ==
    {VersionOf(scenes[k]) : k \in {j \in Siblings : HasVersion(scenes[j])}}

Max(S) == CHOOSE m \in S : \A n \in S : n <= m

\* the loop of increment_and_save is over and save() has not tried yet
ScanCompleted == op = "increment" /\ pc = "try"

\* the loop is over, or an exception of the loop has left the call
ScanEnded ==
    \/ ScanCompleted
    \/ op = "increment" /\ pc = "returned" /\ attempts = <<>>

\* the state of the loop as the call found it
ScanStart == [version |-> version0, largest_number |-> version0, err |-> "none"]

\* the state of the loop as it is now
ScanNow == [version |-> version, largest_number |-> largest_number, err |-> err]

\* the last save() of the call has written its file
SaveSucceeded == attempts # <<>> /\ attempts[Len(attempts)]

v001 == basename(ship, 1, ma)

v002 == basename(ship, 2, ma)

\* str.rfind("."): the last index of a dot in s, 0 if none
LastDot(s) ==
    IF \E k \in 1..Len(s) : s[k] = "."
    THEN CHOOSE k \in 1..Len(s) : s[k] = "." /\ \A j \in (k + 1)..Len(s) : s[j] # "."
    ELSE 0

\* the name is outside the convention <descriptor>_v<int>.<ext>: not exactly
\* one "_v", or no ".<ext>" after it, or no integer before the last "."
OutsideConvention(fullname) ==
    LET parts == split(fullname, SEP)
    IN  \/ Len(parts) # 2
        \/ LastDot(parts[2]) = 0
        \/ ~IsIntLiteral(SubSeq(parts[2], 1, LastDot(parts[2]) - 1))

\* the constructor has just run on the name of the host's saved scene
Reconstructed == op = "construct" /\ pc = "returned" /\ ~modified

(***************************************************************************)
(* Properties.                                                             *)
(***************************************************************************)
\* C1: with descriptor "ship" and version 1, over a listing of exactly
\* ship_v001.ma and ship_v002.ma in either order, increment_and_save ends
\* with version 3 and saves ship_v003.ma.
C1_ShipExample ==
    (/\ op = "increment"
     /\ descriptor = ship
     /\ ext = ma
     /\ version0 = 1
     /\ scenes \in {<<v001, v002>>, <<v002, v001>>})
        => /\ ScanCompleted => version = 3
           /\ (pc = "returned" /\ SaveSucceeded)
                 => sceneName = [parent |-> dir, name |-> basename(ship, 3, ma)]

\* C2: when exactly one listed file of the descriptor has the version held at
\* the call, the version saved differs from that of every listed file of the
\* descriptor.
C2_NoCollision ==
    (/\ ScanCompleted
     /\ Cardinality({k \in Siblings :
                        HasVersion(scenes[k]) /\ VersionOf(scenes[k]) = version0}) = 1)
        => version \notin SiblingVersions

\* C3: when the listing holds a file of the descriptor, the version held and
\* saved after the call is the largest listed version of the descriptor plus one.
C3_MaxPlusOne ==
    (ScanCompleted /\ Siblings # {}) => version = Max(SiblingVersions) + 1

\* the exceptions of makedirs_p
MakedirsErrors == {"FileNotFoundError", "OSError"}

\* what one save() does: at most two saveAs calls and one makedirs_p call; a
\* first call that succeeds is the only call; a first call that fails is
\* followed by makedirs_p, and by the second call only when makedirs_p
\* returns; an exception of makedirs_p or of the second call leaves save();
\* after the second call the directory exists unless a file has its path
SaveOutcomes ==
    /\ Len(attempts) <= 2
    /\ makedirs <= 1
    /\ (attempts # <<>> /\ attempts[1])
          => Len(attempts) = 1 /\ makedirs = 0 /\ pc = "returned" /\ err = "none"
    /\ pc = "except" => attempts = <<FALSE>> /\ makedirs = 0
    /\ (pc = "returned" /\ attempts # <<>> /\ ~attempts[1])
          => /\ makedirs = 1
             /\ IF err \in MakedirsErrors
                THEN Len(attempts) = 1
                ELSE /\ Len(attempts) = 2
                     /\ Ancestors(dir) \subseteq fsDirs \/ IsFile(dir, fsFiles)
    /\ (Len(attempts) = 2 /\ ~attempts[2]) => pc = "returned" /\ err = "RuntimeError"
    /\ \A p \in fsDirs : ~IsFile(p, fsFiles)
    /\ err \in MakedirsErrors => pc = "returned" /\ attempts = <<FALSE>>

\* C4: save() calls saveAs on path(); one save() calls saveAs at most twice
\* and makedirs_p at most once; a first call that succeeds is the only call
\* and creates nothing; a first call that fails is followed by the creation
\* of the directory tree and exactly one retry; a retry that fails leaves
\* save() with its RuntimeError and nothing more is tried.
C4_SaveRetriesOnce ==
    /\ Len(attempts) <= 2
    /\ makedirs <= 1
    /\ (attempts # <<>> /\ attempts[1])
          => Len(attempts) = 1 /\ makedirs = 0 /\ pc = "returned" /\ err = "none"
    /\ pc = "except" => attempts = <<FALSE>> /\ makedirs = 0
    /\ (pc = "returned" /\ attempts # <<>> /\ ~attempts[1])
          => Len(attempts) = 2 /\ makedirs = 1 /\ Ancestors(dir) \subseteq fsDirs
    /\ (Len(attempts) = 2 /\ ~attempts[2]) => pc = "returned" /\ err = "RuntimeError"
    /\ SaveSucceeded
          => /\ sceneName = path(dir, descriptor, version, ext)
             /\ sceneName \in fsFiles

\* C5: on a saved scene whose name is outside the convention the constructor
\* raises the RuntimeError of the naming scheme, and nothing else.
C5_NamingError ==
    (Reconstructed /\ OutsideConvention(sceneName.name)) => err = "RuntimeError"

\* str.startswith and str.endswith
StartsWith(s, prefix) ==
    Len(prefix) <= Len(s) /\ SubSeq(s, 1, Len(prefix)) = prefix

EndsWith(s, suffix) ==
    Len(suffix) <= Len(s) /\ SubSeq(s, Len(s) - Len(suffix) + 1, Len(s)) = suffix

\* the object constructed from the scene named basename(d, v, e) holds d, v, e
\* and its basename() is the name of the scene
RoundTrips(d, v, e) ==
    sceneName.name = basename(d, v, e)
        => /\ err = "none"
           /\ descriptor = d
           /\ version = v
           /\ ext = e
           /\ basename(descriptor, version, ext) = sceneName.name

\* the round trip for every generated descriptor without "_v", every generated
\* version and every generated extension that ExtOk admits (StartsWith and
\* EndsWith only spare the formatting of names that cannot be the scene's)
RoundTripFor(ExtOk(_)) ==
    Reconstructed
        => \A d \in Parts(MaxDescLen) :
              (find(d, SEP, 1) = 0 /\ StartsWith(sceneName.name, d \o SEP))
                 => \A e \in Parts(MaxExtLen) :
                       (ExtOk(e) /\ EndsWith(sceneName.name, DOT \o e))
                          => \A v \in RoundTripVersions : RoundTrips(d, v, e)

NoLeadingDot(e) == e = <<>> \/ e[1] # "."

NoDotNoSep(e) == find(e, DOT, 1) = 0 /\ find(e, SEP, 1) = 0

\* C6 as stated: the round trip, for every descriptor without "_v", every
\* version and every extension that does not start with a dot.
C6_RoundTrip == RoundTripFor(NoLeadingDot)

\* C6, amended: the round trip, for every descriptor without "_v", every
\* version and every extension that contains neither a dot nor "_v".
C6_RoundTripPlainExt == RoundTripFor(NoDotNoSep)

\* C6, reached: an object constructed from a generated name, with a
\* descriptor that ends in "_" and a two-character extension
C6_Witness ==
    /\ Reconstructed
    /\ err = "none"
    /\ sceneName.name = basename(<<"_">>, 100, <<"v", "a">>)
    /\ descriptor = <<"_">>
    /\ version = 100
    /\ ext = <<"v", "a">>

\* the listing without the files of other descriptors
OwnScenes == SelectSeq(scenes, SameDescriptor)

\* C7: the scan ends as it would on the listing without the files of other
\* descriptors, and the file saved is the same.
C7_OtherDescriptorsIgnored ==
    /\ ScanEnded => ScanNow = RunScan(descriptor, ScanStart, OwnScenes)
    /\ (op = "increment" /\ pc = "returned" /\ SaveSucceeded)
          => sceneName = path(dir, descriptor,
                              RunScan(descriptor, ScanStart, OwnScenes).version, ext)

\* C7, reached: a completed scan that changed the version, over a listing
\* with a file of another descriptor and a larger version before the own file
C7_Witness ==
    /\ ScanCompleted
    /\ version # version0
    /\ Len(scenes) >= 2
    /\ ~SameDescriptor(scenes[1])
    /\ HasVersion(scenes[1])
    /\ VersionOf(scenes[1]) > version0

\* C8: when no listed file of the descriptor has the version held at the
\* call, increment_and_save leaves the version alone and calls save().
C8_VersionKept ==
    (/\ op = "increment"
     /\ pc # "scan"
     /\ \A k \in Siblings :
           ~(HasVersion(scenes[k]) /\ VersionOf(scenes[k]) = version0))
        => /\ version = version0
           /\ pc \in {"try", "except"} \/ attempts # <<>>

\* the last listed version of the descriptor above n, or n if there is none
LastAbove(n) ==
    LET above == {k \in Siblings : HasVersion(scenes[k]) /\ VersionOf(scenes[k]) > n}
    IN  IF above = {} THEN n ELSE VersionOf(scenes[Max(above)])

\* C9: largest_number is updated exactly when a listed version of the
\* descriptor is above the version held at the call, so when the loop is over
\* it is the last listed such version, or the version held at the call if
\* there is none.
C9_AboveOriginal == ScanCompleted => largest_number = LastAbove(version0)

\* C10: the scan ends as it would on the listing without the names that hold
\* no "_v": they change nothing and raise nothing.
C10_NamesWithoutSepIgnored ==
    ScanEnded => ScanNow = RunScan(descriptor, ScanStart, SelectSeq(scenes, HasSep))

====
